---- MODULE Spec2Model ----
(***************************************************************************)
(* A model of tools/generate_news.py: one batch run fetches an RSS feed,  *)
(* parses and sorts its items, writes one HTML page per item and an       *)
(* index page into docs/news.  Successive runs share only the file system *)
(* and the wall clock.                                                     *)
(*                                                                         *)
(* Text is a sequence of one-character strings.  A point in time is a     *)
(* number of half-days (DayLen of them make a calendar day); an aware     *)
(* datetime carries its UTC offset, a naive one has none.                 *)
(***************************************************************************)
EXTENDS Integers, Sequences, FiniteSets, TLC

\* ------------------------------------------------------------------ bounds
MaxFeedLen == 2
MaxRuns == 2
MaxNow == 4
MaxTitleLen == 3

\* -------------------------------------------------------------- characters
Whitespace == {" "}
Punct == {"!", ",", "&", "<"}
Seps == Whitespace \cup {"_", "-"}
Hyphen == {"-"}

\* str.lower(), letter by letter
lower_char(c) ==
    CASE c = "A" -> "a"
      [] c = "B" -> "b"
      [] c = "U" -> "u"
      [] OTHER -> c

lower(s) == [i \in 1..Len(s) |-> lower_char(s[i])]

RECURSIVE lstrip(_, _)
lstrip(s, cs) ==
    IF s # <<>> /\ Head(s) \in cs THEN lstrip(Tail(s), cs) ELSE s

RECURSIVE rstrip(_, _)
rstrip(s, cs) ==
    IF s # <<>> /\ s[Len(s)] \in cs
    THEN rstrip(SubSeq(s, 1, Len(s) - 1), cs)
    ELSE s

\* str.strip(chars): both ends
strip(s, cs) == rstrip(lstrip(s, cs), cs)

\* [^\w\s-] : neither a word character, nor white space, nor a hyphen
IsKept(c) == c \notin Punct

\* re.sub(r"[^\w\s-]", "", s)
remove_punct(s) == SelectSeq(s, IsKept)

\* re.sub(r"[\s_-]+", "-", s): each maximal run of separators becomes one hyphen
RECURSIVE collapse(_)
collapse(s) ==
    IF s = <<>> THEN <<>>
    ELSE IF Head(s) \in Seps
         THEN <<"-">> \o collapse(lstrip(Tail(s), Seps))
         ELSE <<Head(s)>> \o collapse(Tail(s))

ItemSlug == <<"i", "t", "e", "m">>

\* a slugify that trims the hyphens before the separators are collapsed
slugify_trim_first(s) ==
    LET s1 == strip(lower(s), Whitespace)
        s2 == remove_punct(s1)
        s3 == collapse(strip(s2, Hyphen))
    IN  IF s3 = <<>> THEN ItemSlug ELSE s3

slugify(s) ==
    LET s1 == strip(lower(s), Whitespace)
        s2 == remove_punct(s1)
        s3 == collapse(s2)
        s4 == strip(s3, Hyphen)
    IN  IF s4 = <<>> THEN ItemSlug ELSE s4

\* html.escape: the characters HTML reserves become entities
escape_char(c) ==
    CASE c = "&" -> "&amp;"
      [] c = "<" -> "&lt;"
      [] OTHER -> c

html_escape(s) == [i \in 1..Len(s) |-> escape_char(s[i])]

\* ---------------------------------------------------------------- datetimes
DayLen == 2
WallTexts == {"T1", "T2", "T3"}
Zones == {"+0000", "+0100", "-0000"}

WallValue(t) == CASE t = "T1" -> 1 [] t = "T2" -> 2 [] t = "T3" -> 3
ZoneOffset(z) == CASE z = "+0100" -> 1 [] OTHER -> 0

\* whether email.utils.parsedate_to_datetime accepts the text
DateOk(pub) == Len(pub) = 2 /\ pub[1] \in WallTexts /\ pub[2] \in Zones

\* its result: the wall-clock fields as written, aware unless the zone is -0000
parsedate_to_datetime(pub) ==
    [aware |-> pub[2] # "-0000",
     wall  |-> WallValue(pub[1]),
     off   |-> ZoneOffset(pub[2])]

\* datetime.now(): naive local time
naive(t) == [aware |-> FALSE, wall |-> t, off |-> 0]

\* what datetime's ordering compares: UTC for aware values, the fields for naive
Instant(dt) == dt.wall - dt.off

\* strftime("%Y-%m-%d") and strftime("%d %b %Y"): the calendar day of the fields
DateStr(dt) == ToString(dt.wall \div DayLen)
Humanize(dt) == <<ToString(dt.wall \div DayLen), "Mon", "Y">>

\* sorting a list that holds a naive and an aware datetime raises TypeError
Mixed(dts) == \E i, j \in 1..Len(dts) : dts[i].aware # dts[j].aware

\* ------------------------------------------------------------------ sorting
\* list.sort(key=..., reverse=True) is stable: of two elements with equal keys
\* the one that came first stays first.  The result is given as the permutation
\* of positions.
KeyGE(a, b) == Instant(a) >= Instant(b)

InsertPos(perm, keys, n) ==
    LET p == Cardinality({j \in 1..Len(perm) : KeyGE(keys[perm[j]], keys[n])})
    IN  SubSeq(perm, 1, p) \o <<n>> \o SubSeq(perm, p + 1, Len(perm))

RECURSIVE sort_perm(_, _)
sort_perm(keys, n) ==
    IF n = 0 THEN <<>> ELSE InsertPos(sort_perm(keys, n - 1), keys, n)

Permute(s, perm) == [i \in 1..Len(s) |-> s[perm[i]]]

\* an ascending sort (reverse=True left out)
InsertPosAsc(perm, keys, n) ==
    LET p == Cardinality({j \in 1..Len(perm) : KeyGE(keys[n], keys[perm[j]])})
    IN  SubSeq(perm, 1, p) \o <<n>> \o SubSeq(perm, p + 1, Len(perm))

RECURSIVE sort_perm_asc(_, _)
sort_perm_asc(keys, n) ==
    IF n = 0 THEN <<>> ELSE InsertPosAsc(sort_perm_asc(keys, n - 1), keys, n)

\* items.sort(key=lambda x: x["pubDate"], reverse=True)
sort_items(s) ==
    Permute(s, sort_perm([i \in 1..Len(s) |-> s[i].pubDate], Len(s)))

sort_index_asc(s) ==
    Permute(s, sort_perm_asc([i \in 1..Len(s) |-> s[i][1]], Len(s)))

\* index_items.sort(key=lambda x: x[0], reverse=True)
sort_index(s) ==
    Permute(s, sort_perm([i \in 1..Len(s) |-> s[i][1]], Len(s)))

Min(a, b) == IF a < b THEN a ELSE b
Max(a, b) == IF a > b THEN a ELSE b

\* s[-n:], the last n elements
slice_tail(s, n) ==
    IF n >= 0 THEN SubSeq(s, Len(s) - Min(n, Len(s)) + 1, Len(s))
    ELSE SubSeq(s, 1, Max(Len(s) + n, 0))

\* s[:n], a negative n counting from the end
slice(s, n) ==
    IF n >= 0 THEN SubSeq(s, 1, Min(n, Len(s)))
    ELSE SubSeq(s, 1, Max(Len(s) + n, 0))

\* ------------------------------------------------------------------- parsing
Untitled == <<"U", "n", "t", "i", "t", "l", "e", "d">>

\* one <item>: the trimmed fields and the parsed date, or the clock's reading
\* when the date does not parse (pos is the item's place in the feed)
parse_item(raw, t, i) ==
    LET title == strip(raw.title, Whitespace)
        pub   == strip(raw.pubDate, Whitespace)
    IN  [title       |-> IF title = <<>> THEN Untitled ELSE title,
         description |-> strip(raw.description, Whitespace),
         pubDate     |-> IF DateOk(pub) THEN parsedate_to_datetime(pub)
                         ELSE naive(t),
         pos         |-> i]

\* the list built by the loop over channel.findall("item")
parse_items(doc, clk) ==
    IF doc.channel
    THEN [i \in 1..Len(doc.items) |-> parse_item(doc.items[i], clk[i], i)]
    ELSE <<>>

AllParseable(doc) ==
    \A i \in 1..Len(doc.items) :
        DateOk(strip(doc.items[i].pubDate, Whitespace))

\* ---------------------------------------------------------------- rendering
OUT_DIR == "docs/news"
IndexName == <<"index.html">>
Placeholder == <<"<p>(No description provided)</p>">>
NoComments == <<"<p><em>(Comments not configured yet)</em></p>">>

filename(it) == <<DateStr(it.pubDate), "-">> \o slugify(it.title) \o <<".html">>

\* os.path.join(OUT_DIR, filename)
path_join(dir, name) == <<dir>> \o name
dirname(path) == path[1]

page_template(title, published, body_html, nav_prefix, snippet) ==
    [kind      |-> "page",
     title     |-> html_escape(title),
     published |-> html_escape(published),
     body      |-> body_html,
     nav       |-> nav_prefix,
     comments  |-> IF snippet # <<>> THEN <<"<h2>Comments</h2>">> \o snippet
                   ELSE NoComments]

render_item(it, snippet) ==
    page_template(it.title, Humanize(it.pubDate),
                  IF it.description # <<>> THEN it.description ELSE Placeholder,
                  "../", snippet)

\* one <li> of the index
index_li(e) ==
    [href |-> <<"./">> \o html_escape(e[3]),
     text |-> html_escape(e[2]),
     date |-> Humanize(e[1])]

news_index(entries) ==
    [kind |-> "index", lis |-> [i \in 1..Len(entries) |-> index_li(entries[i])]]

\* --------------------------------------------------------------- file system
EmptyFs == [dirs |-> {}, files |-> <<>>]

\* a makedirs that clears the directory it finds
makedirs_clean(fs, dir) == [dirs |-> fs.dirs \cup {dir}, files |-> <<>>]

\* os.makedirs(dir, exist_ok=True)
makedirs(fs, dir) == [fs EXCEPT !.dirs = @ \cup {dir}]

put(files, path, text) ==
    [p \in DOMAIN files \cup {path} |-> IF p = path THEN text ELSE files[p]]

\* a write_file that leaves an existing file as it is
write_file_keep(fs, path, text) ==
    LET g == makedirs(fs, dirname(path))
    IN  IF path \in DOMAIN g.files THEN g
        ELSE [g EXCEPT !.files = put(g.files, path, text)]

\* a write_file that opens the file with "a": the text is added to what is there
write_file_append(fs, path, text) ==
    LET g == makedirs(fs, dirname(path))
    IN  IF path \in DOMAIN g.files
        THEN [g EXCEPT !.files =
                 put(g.files, path, [kind |-> "appended", to |-> g.files[path],
                                     text |-> text])]
        ELSE [g EXCEPT !.files = put(g.files, path, text)]

\* write_file: create the directory, then open(path, "w") and write
write_file(fs, path, text) ==
    LET g == makedirs(fs, dirname(path))
    IN  [g EXCEPT !.files = put(g.files, path, text)]

\* -------------------------------------------------------------------- state
VARIABLES
    pool,           \* the items the upstream feed may hold
    envs,           \* the environments a run may be started with
    runsLeft,       \* runs still to be started
    now,            \* the wall clock
    fetches,        \* HTTP requests made so far
    fs,             \* the file system: directories, and files by path
    environ,        \* os.environ of the running process
    FEED_URL, MAX_ITEMS, GISCUS_SNIPPET,      \* the module's globals
    pc, err,        \* where main is, and the exception that ended it
    xml_text,       \* the fetched document
    parsed,         \* parse_rss: the list before it is sorted and cut
    items,          \* parse_rss's result
    k,              \* main's loop: the next item to write
    index_items,    \* main's list of (dt, title, filename)
    written,        \* the paths written by this run, in order
    start,          \* the file system and the fetch count when this run began
    prev,           \* the run before this one, when it completed
    title, slug     \* slugify's argument and its results

vars == <<pool, envs, runsLeft, now, fetches, fs, environ, FEED_URL, MAX_ITEMS,
          GISCUS_SNIPPET, pc, err, xml_text, parsed, items, k, index_items,
          written, start, prev, title, slug>>

world == <<pool, envs>>
globals == <<environ, FEED_URL, MAX_ITEMS, GISCUS_SNIPPET>>
locals == <<xml_text, parsed, items, k, index_items>>
history == <<start, prev>>
slugvars == <<title, slug>>

\* ------------------------------------------------------------------ inputs
Titles == {<<"A", "!">>, <<"a">>, <<" ">>}
PubDates == {<<>>, <<"T1", "+0000">>, <<"T2", "+0100">>, <<"T2", "-0000">>,
             <<"T3", "+0000">>}

\* every title with every date, and one item without a description
RawItems ==
    [title : Titles, description : {<<"d">>}, pubDate : PubDates]
        \cup [title : {<<"a">>}, description : {<<>>}, pubDate : {<<"T3", "+0000">>}]

\* a smaller repertoire for runs that follow one another
FewItems ==
    {[title |-> <<"A", "!">>, description |-> <<"d">>, pubDate |-> <<"T3", "+0000">>],
     [title |-> <<"a">>, description |-> <<>>, pubDate |-> <<"T2", "+0100">>],
     [title |-> <<" ">>, description |-> <<>>, pubDate |-> <<>>]}

Url == <<"u">>
Unset == [set |-> FALSE, val |-> 0]
Set(n) == [set |-> TRUE, val |-> n]

Env(url, max, snippet) ==
    [RSS_FEED |-> url, MAX_ITEMS |-> max, GISCUS_SNIPPET |-> snippet]

OneRunEnvs ==
    {Env(Url, m, <<>>) : m \in {Unset, Set(-1), Set(0), Set(1)}}
        \cup {Env(Url, Unset, <<"g">>), Env(<<>>, Unset, <<>>)}

ManyRunEnvs ==
    {Env(Url, Unset, <<>>), Env(Url, Set(1), <<>>), Env(<<" ">>, Unset, <<>>),
     Env(<<>>, Unset, <<>>)}

Malformed == [wellformed |-> FALSE, channel |-> FALSE, items |-> <<>>]
NoChannel == [wellformed |-> TRUE, channel |-> FALSE, items |-> <<>>]
Feed(s) == [wellformed |-> TRUE, channel |-> TRUE, items |-> s]

\* the documents the feed URL may serve
Docs ==
    {Malformed, NoChannel}
        \cup {Feed(s) : s \in UNION {[1..n -> pool] : n \in 0..MaxFeedLen}}

\* int(os.environ.get("MAX_ITEMS", "20"))
DefaultMaxItems == 20
int_env(e) == IF e.set THEN e.val ELSE DefaultMaxItems

\* the variable as it is, not stripped
feed_url_raw(e) == e.RSS_FEED

\* FEED_URL = os.environ.get("RSS_FEED", "").strip()
feed_url(e) == strip(e.RSS_FEED, Whitespace)

NoPrev == [valid |-> FALSE, environ |-> Env(<<>>, Unset, <<>>),
           xml_text |-> Malformed, fs |-> EmptyFs]

InitCommon ==
    /\ now = 3
    /\ fetches = 0
    /\ fs = EmptyFs
    /\ environ = Env(<<>>, Unset, <<>>)
    /\ FEED_URL = <<>>
    /\ MAX_ITEMS = DefaultMaxItems
    /\ GISCUS_SNIPPET = <<>>
    /\ pc = "idle"
    /\ err = "none"
    /\ xml_text = Malformed
    /\ parsed = <<>>
    /\ items = <<>>
    /\ k = 1
    /\ index_items = <<>>
    /\ written = <<>>
    /\ start = [fs |-> EmptyFs, fetches |-> 0]
    /\ prev = NoPrev

\* one run into an empty directory, any feed
Init ==
    /\ pool = RawItems
    /\ envs = OneRunEnvs
    /\ runsLeft = 1
    /\ InitCommon
    /\ title = <<>>
    /\ slug = <<>>

\* successive runs into the same directory
InitRuns ==
    /\ pool = FewItems
    /\ envs = ManyRunEnvs
    /\ runsLeft = MaxRuns
    /\ InitCommon
    /\ title = <<>>
    /\ slug = <<>>

\* slugify alone, on every short title
Alphabet == {"A", "a", " ", "_", "-", "!"}

InitSlug ==
    /\ pool = {}
    /\ envs = {}
    /\ runsLeft = 0
    /\ InitCommon
    /\ title \in UNION {[1..n -> Alphabet] : n \in 0..MaxTitleLen}
    /\ slug = <<>>

\* ----------------------------------------------------------------- actions
\* the process starts: the module's globals are read from the environment
Launch ==
    /\ pc \in {"idle", "done", "exit"}
    /\ runsLeft > 0
    /\ runsLeft' = runsLeft - 1
    /\ \E e \in envs :
        /\ environ' = e
        /\ FEED_URL' = feed_url(e)
        /\ MAX_ITEMS' = int_env(e.MAX_ITEMS)
        /\ GISCUS_SNIPPET' = strip(e.GISCUS_SNIPPET, Whitespace)
    /\ pc' = "main"
    /\ err' = "none"
    /\ xml_text' = Malformed
    /\ parsed' = <<>>
    /\ items' = <<>>
    /\ k' = 1
    /\ index_items' = <<>>
    /\ written' = <<>>
    /\ start' = [fs |-> fs, fetches |-> fetches]
    /\ prev' = IF pc = "done"
               THEN [valid |-> TRUE, environ |-> environ,
                     xml_text |-> xml_text, fs |-> fs]
               ELSE NoPrev
    /\ UNCHANGED <<world, now, fetches, fs, slugvars>>

\* main: if not FEED_URL: raise SystemExit
ConfigError ==
    /\ pc = "main"
    /\ FEED_URL = <<>>
    /\ pc' = "exit"
    /\ err' = "SystemExit"
    /\ UNCHANGED <<world, runsLeft, now, fetches, fs, globals, locals, written,
                   history, slugvars>>

\* fetch: urlopen raises
FetchError ==
    /\ pc = "main"
    /\ FEED_URL # <<>>
    /\ fetches' = fetches + 1
    /\ pc' = "exit"
    /\ err' = "URLError"
    /\ UNCHANGED <<world, runsLeft, now, fs, globals, locals, written, history,
                   slugvars>>

\* fetch: the body of the response
Fetch ==
    /\ pc = "main"
    /\ FEED_URL # <<>>
    /\ fetches' = fetches + 1
    /\ \E d \in Docs : xml_text' = d
    /\ pc' = "fetched"
    /\ UNCHANGED <<world, runsLeft, now, fs, globals, err, parsed, items, k,
                   index_items, written, history, slugvars>>

\* a main that creates the output directory before the document is parsed
ParseErrorAfterMakedirs ==
    /\ pc = "fetched"
    /\ ~xml_text.wellformed
    /\ fs' = makedirs(fs, OUT_DIR)
    /\ pc' = "exit"
    /\ err' = "ParseError"
    /\ UNCHANGED <<world, runsLeft, now, fetches, globals, locals, written,
                   history, slugvars>>

\* parse_rss: ET.fromstring raises ParseError
ParseError ==
    /\ pc = "fetched"
    /\ ~xml_text.wellformed
    /\ pc' = "exit"
    /\ err' = "ParseError"
    /\ UNCHANGED <<world, runsLeft, now, fetches, fs, globals, locals, written,
                   history, slugvars>>

\* the readings of datetime.now() during one parse: the clock does not go
\* back, and is read only for an item whose date does not parse
Readings(doc) ==
    {clk \in [1..Len(doc.items) -> now..MaxNow] :
        \A i \in 1..Len(doc.items) :
            LET before == IF i = 1 THEN now ELSE clk[i - 1]
            IN  IF DateOk(strip(doc.items[i].pubDate, Whitespace))
                THEN clk[i] = before
                ELSE clk[i] >= before}

ClockAfter(doc, clk) == IF Len(doc.items) = 0 THEN now ELSE clk[Len(doc.items)]

PubDatesOf(s) == [i \in 1..Len(s) |-> s[i].pubDate]

\* parse_rss: items.sort compares a naive datetime with an aware one
SortTypeError ==
    /\ pc = "fetched"
    /\ xml_text.wellformed
    /\ \E clk \in Readings(xml_text) :
        /\ Mixed(PubDatesOf(parse_items(xml_text, clk)))
        /\ parsed' = parse_items(xml_text, clk)
        /\ now' = ClockAfter(xml_text, clk)
    /\ pc' = "exit"
    /\ err' = "TypeError"
    /\ UNCHANGED <<world, runsLeft, fetches, fs, globals, xml_text, items, k,
                   index_items, written, history, slugvars>>

\* parse_rss returns the newest MAX_ITEMS items
Parse ==
    /\ pc = "fetched"
    /\ xml_text.wellformed
    /\ \E clk \in Readings(xml_text) :
        /\ ~Mixed(PubDatesOf(parse_items(xml_text, clk)))
        /\ parsed' = parse_items(xml_text, clk)
        /\ items' = slice(sort_items(parse_items(xml_text, clk)), MAX_ITEMS)
        /\ now' = ClockAfter(xml_text, clk)
    /\ pc' = "parsed"
    /\ UNCHANGED <<world, runsLeft, fetches, fs, globals, err, xml_text, k,
                   index_items, written, history, slugvars>>

\* main: os.makedirs(OUT_DIR, exist_ok=True)
MakeOutDir ==
    /\ pc = "parsed"
    /\ fs' = makedirs(fs, OUT_DIR)
    /\ pc' = "loop"
    /\ UNCHANGED <<world, runsLeft, now, fetches, globals, err, locals, written,
                   history, slugvars>>

\* main: one turn of the loop over items
WriteItem ==
    /\ pc = "loop"
    /\ k <= Len(items)
    /\ LET it == items[k]
           out_path == path_join(OUT_DIR, filename(it))
       IN  /\ fs' = write_file(fs, out_path, render_item(it, GISCUS_SNIPPET))
           /\ written' = Append(written, out_path)
           /\ index_items' = Append(index_items,
                                    <<it.pubDate, it.title, filename(it)>>)
    /\ k' = k + 1
    /\ UNCHANGED <<world, runsLeft, now, fetches, globals, pc, err, xml_text,
                   parsed, items, history, slugvars>>

\* main: sort the index entries and write index.html
WriteIndex ==
    /\ pc = "loop"
    /\ k > Len(items)
    /\ index_items' = sort_index(index_items)
    /\ fs' = write_file(fs, path_join(OUT_DIR, IndexName),
                        news_index(sort_index(index_items)))
    /\ written' = Append(written, path_join(OUT_DIR, IndexName))
    /\ pc' = "done"
    /\ UNCHANGED <<world, runsLeft, now, fetches, globals, err, xml_text, parsed,
                   items, k, history, slugvars>>

\* slug = slugify(title), and then slugify of that
Slugify ==
    /\ Len(slug) = 0
    /\ slug' = <<slugify(title)>>
    /\ UNCHANGED <<world, runsLeft, now, fetches, fs, globals, pc, err, locals,
                   written, history, title>>

SlugifyAgain ==
    /\ Len(slug) = 1
    /\ slug' = Append(slug, slugify(slug[1]))
    /\ UNCHANGED <<world, runsLeft, now, fetches, fs, globals, pc, err, locals,
                   written, history, title>>

NextSlug == Slugify \/ SlugifyAgain

Next ==
    \/ Launch
    \/ ConfigError
    \/ FetchError
    \/ Fetch
    \/ ParseError
    \/ SortTypeError
    \/ Parse
    \/ MakeOutDir
    \/ WriteItem
    \/ WriteIndex

Spec == Init /\ [][Next]_vars

SpecRuns == InitRuns /\ [][Next]_vars

SpecSlug == InitSlug /\ [][NextSlug]_vars

\* ------------------------------------------------------------------ claims
ItemPath(it) == path_join(OUT_DIR, filename(it))
IndexPath == path_join(OUT_DIR, IndexName)
Produced == {ItemPath(items[i]) : i \in 1..Len(items)} \cup {IndexPath}
Blank(s) == \A i \in 1..Len(s) : s[i] \in Whitespace
AfterParse == pc \in {"parsed", "loop", "done"}
Entry(it) == <<it.pubDate, it.title, filename(it)>>
Href(it) == <<"./">> \o html_escape(filename(it))

\* C1: a feed holding an item whose date does not parse never ends the run in
\* parse_rss: no such run exits with the sort's TypeError.
C1_UnparsedDateNeverFailsRun ==
    ~(pc = "exit" /\ err = "TypeError" /\ ~AllParseable(xml_text))

\* C2: with RSS_FEED empty or all white space the run ends with SystemExit at
\* main's first statement: no fetch was made, and the file system (directories,
\* files, contents) is what it was when the run began.
C2_UnsetUrlAbortsFirst ==
    (pc # "idle" /\ Blank(environ.RSS_FEED)) =>
        /\ pc \in {"main", "exit"}
        /\ pc = "exit" => err = "SystemExit"
        /\ fetches = start.fetches
        /\ fs = start.fs

C2_Witness ==
    /\ pc = "exit"
    /\ err = "SystemExit"
    /\ environ.RSS_FEED = <<" ">>
    /\ DOMAIN start.fs.files # {}

\* C3: up to the end of parse_rss the file system is untouched, so a run ended
\* by a failed fetch or by malformed XML leaves it as it was when the run began.
C3_FetchOrParseFailureWritesNothing ==
    /\ pc \in {"main", "fetched"} => fs = start.fs
    /\ (pc = "exit" /\ err \in {"URLError", "ParseError"}) => fs = start.fs

C3_Witness ==
    /\ pc = "exit"
    /\ err = "ParseError"
    /\ DOMAIN fs.files # {}

Kept == {items[i].pos : i \in 1..Len(items)}

\* the items returned are items of the feed, each once, and no dropped item
\* is newer than a kept one
MostRecentKept ==
    /\ Cardinality(Kept) = Len(items)
    /\ \A i \in 1..Len(items) :
        items[i].pos \in 1..Len(parsed) /\ items[i] = parsed[items[i].pos]
    /\ \A d \in (1..Len(parsed)) \ Kept : \A i \in 1..Len(items) :
        Instant(parsed[d].pubDate) <= Instant(items[i].pubDate)

\* one page is written and one index entry emitted per item returned
OnePagePerItem ==
    pc = "done" =>
        /\ Len(written) = Len(items) + 1
        /\ Len(index_items) = Len(items)
        /\ Len(fs.files[IndexPath].lis) = Len(items)

\* C4 as stated: whatever MAX_ITEMS is, parse_rss returns at most MAX_ITEMS
\* items, and they are the most recent ones.
C4_AtMostMaxItemsForEveryValue ==
    AfterParse => Len(items) <= MAX_ITEMS /\ MostRecentKept /\ OnePagePerItem

\* C4 amended: for MAX_ITEMS >= 0 parse_rss returns at most MAX_ITEMS items;
\* for every MAX_ITEMS the items dropped are no newer than the items kept, and
\* the run renders one page and one index entry per item returned.
C4_AtMostMaxItemsWhenNonNegative ==
    AfterParse =>
        /\ MAX_ITEMS >= 0 => Len(items) <= MAX_ITEMS
        /\ MostRecentKept
        /\ OnePagePerItem

C4_Witness ==
    /\ pc = "done"
    /\ MAX_ITEMS = 1
    /\ Len(parsed) = 2
    /\ Len(items) = 1
    /\ \E d \in 1..2 : Instant(parsed[d].pubDate) < Instant(items[1].pubDate)

\* C5: in the finished index an earlier entry is never older than a later one,
\* entries of equal time keep the feed's order, and the index lists the items in
\* the order parse_rss returned them, which is the order their pages were written.
C5_IndexOrderedAsParsed ==
    pc = "done" =>
        /\ \A i, j \in 1..Len(index_items) :
            i < j => Instant(index_items[i][1]) >= Instant(index_items[j][1])
        /\ \A i, j \in 1..Len(items) :
            (i < j /\ Instant(items[i].pubDate) = Instant(items[j].pubDate))
                => items[i].pos < items[j].pos
        /\ index_items = [i \in 1..Len(items) |-> Entry(items[i])]
        /\ fs.files[IndexPath].lis =
               [i \in 1..Len(items) |->
                   [href |-> Href(items[i]),
                    text |-> html_escape(items[i].title),
                    date |-> Humanize(items[i].pubDate)]]
        /\ \A i \in 1..Len(items) : written[i] = ItemPath(items[i])

C5_Witness ==
    /\ pc = "done"
    /\ Len(items) = 2
    /\ Instant(items[1].pubDate) = Instant(items[2].pubDate)
    /\ items[1].pubDate # items[2].pubDate
    /\ items[1].title # items[2].title

RawName(doc, i) == filename(parse_item(doc.items[i], now, i))

\* a feed of well-formed items, no more than MAX_ITEMS, no two with the same
\* date and slug
RoundTripFeed(doc) ==
    /\ doc.wellformed
    /\ doc.channel
    /\ AllParseable(doc)
    /\ Len(doc.items) <= MAX_ITEMS
    /\ \A i, j \in 1..Len(doc.items) : i # j => RawName(doc, i) # RawName(doc, j)

\* C6: a run on such a feed of N items completes, having written N item files
\* and then index.html, whose N links each name one of those item files; no item
\* file is index.html.
C6_RoundTrip ==
    (pc \in {"exit", "done"} /\ RoundTripFeed(xml_text)) =>
        LET N == Len(xml_text.items)
        IN  /\ pc = "done"
            /\ Len(written) = N + 1
            /\ Cardinality({written[i] : i \in 1..N}) = N
            /\ written[N + 1] = IndexPath
            /\ IndexPath \notin {written[i] : i \in 1..N}
            /\ Len(fs.files[IndexPath].lis) = N
            /\ \A l \in 1..N : \E i \in 1..N :
                /\ fs.files[IndexPath].lis[l].href = Href(items[i])
                /\ ItemPath(items[i]) \in {written[w] : w \in 1..N}
                /\ ItemPath(items[i]) \in DOMAIN fs.files

\* C7: when two items of a completed run have the same file name, the file of
\* that name holds the page of the one written last, and the run has added one
\* file per distinct name.
C7_LastWriteWins ==
    pc = "done" =>
        /\ \A i, j \in 1..Len(items) :
            (/\ i < j
             /\ filename(items[i]) = filename(items[j])
             /\ \A l \in (j + 1)..Len(items) : filename(items[l]) # filename(items[j]))
                => fs.files[ItemPath(items[j])] = render_item(items[j], GISCUS_SNIPPET)
        /\ Cardinality((DOMAIN fs.files \ DOMAIN start.fs.files) \ {IndexPath})
               <= Cardinality({filename(items[i]) : i \in 1..Len(items)})

C7_Witness ==
    /\ pc = "done"
    /\ \E i, j \in 1..Len(items) :
        /\ i < j
        /\ filename(items[i]) = filename(items[j])
        /\ render_item(items[i], GISCUS_SNIPPET) # render_item(items[j], GISCUS_SNIPPET)
        /\ fs.files[ItemPath(items[j])] = render_item(items[j], GISCUS_SNIPPET)

\* C8: no step of any run removes a file; a file whose content a step changes
\* is one the current run produces (an item page of this run, or index.html);
\* and a run that completes has just written index.html.
C8_WriterNeverDeletes ==
    [][/\ DOMAIN fs.files \subseteq DOMAIN fs'.files
       /\ fs.dirs \subseteq fs'.dirs
       /\ \A p \in DOMAIN fs.files :
            fs'.files[p] # fs.files[p] => p \in Produced
       /\ (pc # "done" /\ pc' = "done") =>
            /\ IndexPath \in DOMAIN fs'.files
            /\ fs'.files[IndexPath] = news_index(index_items')]_vars

C8_Witness ==
    /\ pc = "done"
    /\ \E p \in DOMAIN fs.files :
        /\ p \notin Produced
        /\ p \in DOMAIN start.fs.files
        /\ fs.files[p] = start.fs.files[p]
    /\ \E p \in DOMAIN start.fs.files :
        p \in Produced /\ fs.files[p] # start.fs.files[p]

SameRunAsBefore ==
    prev.valid /\ prev.xml_text = xml_text /\ prev.environ = environ

\* C9: a completed run on a feed whose dates all parse leaves, for every name it
\* produces, content computed from the feed alone (a page of an item of that
\* name, and the index of the items); and when the run before it completed with
\* the same feed and environment, the file system is what that run left.
C9_RegenerationIdempotent ==
    (pc = "done" /\ AllParseable(xml_text)) =>
        /\ SameRunAsBefore => fs = prev.fs
        /\ \A i \in 1..Len(items) : \E j \in 1..Len(items) :
            /\ filename(items[j]) = filename(items[i])
            /\ fs.files[ItemPath(items[i])] = render_item(items[j], GISCUS_SNIPPET)
        /\ fs.files[IndexPath] = news_index([i \in 1..Len(items) |-> Entry(items[i])])

C9_Witness ==
    /\ pc = "done"
    /\ AllParseable(xml_text)
    /\ SameRunAsBefore
    /\ Len(items) = 2
    /\ fs = prev.fs

\* C10: slugify applied to a slug returns it; a title of punctuation only (or
\* empty) gives "item", which is its own slug.
C10_SlugifyIdempotent ==
    /\ Len(slug) = 2 => slug[2] = slug[1]
    /\ (Len(slug) >= 1 /\ \A i \in 1..Len(title) : title[i] \in Punct)
           => slug[1] = ItemSlug
    /\ (Len(slug) = 2 /\ slug[1] = ItemSlug) => slug[2] = ItemSlug

C10_Witness ==
    /\ Len(slug) = 2
    /\ title = <<"_", "A", "!">>
    /\ slug[1] = <<"a">>
====
